---- MODULE Spec2Model ----
(***************************************************************************)
(* leptos_config: get_configuration and the Env string classifiers.        *)
(*                                                                         *)
(* Text is modelled as a sequence of lexemes (TLA+ strings).  A lexeme is  *)
(* either one character ("[", ".", "-", "_", a digit, "\n", ...) or a      *)
(* word of several letters ("package", "leptos", ...).  Every textual      *)
(* operation of the code (regex search, slicing, counting newlines,        *)
(* literal replacement, TOML parsing, lower-casing, key splitting) is     *)
(* computed on these sequences.  The Env classifiers work on sequences of  *)
(* single characters.                                                      *)
(***************************************************************************)
EXTENDS Integers, Sequences, FiniteSets, TLC

VARIABLES
    file,       \* the source document: Unreadable, or its text
    environ,    \* the process environment: a set of [name, value]
    pc,         \* pc[r]: the stage run r of get_configuration is at
    text,       \* text[r]: what run r read
    start,      \* start[r]: 1-based offset of the regex match (0: not yet)
    toml,       \* toml[r]: the rewritten section
    settings,   \* settings[r]: the merged key space
    result,     \* result[r]: <<>> while running, <<outcome>> when returned
    input,      \* the string handed to the Env classifiers
    lenient,    \* <<>> or <<Env::from_str(input)>>
    strict      \* <<>> or <<Env::try_from(input)>>

vars == <<file, environ, pc, text, start, toml, settings, result,
          input, lenient, strict>>

(***************************************************************************)
(* Bounds of the model.                                                    *)
(***************************************************************************)
\* lines of the document before the section header
MaxPre == 2
\* variables set in the process environment
MaxEnvVars == 1
\* length of the enumerated classifier inputs
MaxLen == 3

(***************************************************************************)
(* Sequences of lexemes.                                                   *)
(***************************************************************************)
NL == "\n"

RECURSIVE JoinLines(_)
JoinLines(ls) ==
    IF ls = <<>> THEN <<>>
    ELSE IF Len(ls) = 1 THEN ls[1]
    ELSE ls[1] \o <<NL>> \o JoinLines(Tail(ls))

Drop(s, n) == SubSeq(s, n + 1, Len(s))

Take(s, n) == SubSeq(s, 1, n)

StartsWith(s, p) == Len(p) <= Len(s) /\ Take(s, Len(p)) = p

\* str::matches(c).count()
Count(s, c) == Cardinality({i \in 1..Len(s) : s[i] = c})

\* "x".repeat(n)
Repeat(c, n) == [i \in 1..n |-> c]

\* an occurrence of the pattern p in s at offset i
OccursAt(s, p, i) == i + Len(p) - 1 <= Len(s) /\ SubSeq(s, i, i + Len(p) - 1) = p

\* str::replace(from, to): every non-overlapping occurrence, left to right
RECURSIVE Replace(_, _, _)
Replace(s, from, to) ==
    IF \A i \in 1..Len(s) : ~OccursAt(s, from, i) THEN s
    ELSE LET i == CHOOSE k \in 1..Len(s) :
                      OccursAt(s, from, k) /\ \A j \in 1..(k - 1) : ~OccursAt(s, from, j)
         IN  Take(s, i - 1) \o to \o Replace(Drop(s, i - 1 + Len(from)), from, to)

\* str::split(sep) on a one-lexeme separator
RECURSIVE SplitOn(_, _)
SplitOn(s, sep) ==
    IF \A i \in 1..Len(s) : s[i] # sep THEN <<s>>
    ELSE LET i == CHOOSE k \in 1..Len(s) :
                      s[k] = sep /\ \A j \in 1..(k - 1) : s[j] # sep
         IN <<Take(s, i - 1)>> \o SplitOn(Drop(s, i), sep)

Digits == <<"0", "1", "2", "3", "4", "5", "6", "7", "8", "9">>

IsDigit(t) == \E i \in 1..10 : Digits[i] = t

DigitValue(t) == (CHOOSE i \in 1..10 : Digits[i] = t) - 1

\* the lexemes that are one character long
OneChar == {"[", "]", ".", "-", "_", "=", "\"", " ", ":", "/", "#", NL}
           \cup {Digits[i] : i \in 1..10}

(***************************************************************************)
(* Env and its string classifiers (strings of single characters).          *)
(***************************************************************************)
UpperChars == <<"A", "B", "C", "D", "E", "F", "G", "H", "I", "J", "K", "L", "M",
                "N", "O", "P", "Q", "R", "S", "T", "U", "V", "W", "X", "Y", "Z">>

LowerChars == <<"a", "b", "c", "d", "e", "f", "g", "h", "i", "j", "k", "l", "m",
                "n", "o", "p", "q", "r", "s", "t", "u", "v", "w", "x", "y", "z">>

\* char::to_lowercase on the characters the model uses
ToLowerChar(c) ==
    IF \E i \in 1..26 : UpperChars[i] = c
    THEN LowerChars[CHOOSE i \in 1..26 : UpperChars[i] = c]
    ELSE c

\* str::to_lowercase
ToLowercase(s) == [i \in 1..Len(s) |-> ToLowerChar(s[i])]

S_dev == <<"d", "e", "v">>
S_development == <<"d", "e", "v", "e", "l", "o", "p", "m", "e", "n", "t">>
S_prod == <<"p", "r", "o", "d">>
S_production == <<"p", "r", "o", "d", "u", "c", "t", "i", "o", "n">>

\* Result<Env, ()> and Result<Env, String>
OkEnv(e) == [ok |-> TRUE, env |-> e]
ErrEnv == [ok |-> FALSE, env |-> "none"]

\* impl FromStr for Env
FromStrMutant(s) ==
    LET sanitized == s
    IN  IF sanitized = S_dev THEN OkEnv("DEV")
        ELSE IF sanitized = S_development THEN OkEnv("DEV")
        ELSE IF sanitized = S_prod THEN OkEnv("PROD")
        ELSE IF sanitized = S_production THEN OkEnv("PROD")
        ELSE OkEnv("DEV")

FromStr(s) ==
    LET sanitized == ToLowercase(s)
    IN  IF sanitized = S_dev THEN OkEnv("DEV")
        ELSE IF sanitized = S_development THEN OkEnv("DEV")
        ELSE IF sanitized = S_prod THEN OkEnv("PROD")
        ELSE IF sanitized = S_production THEN OkEnv("PROD")
        ELSE OkEnv("DEV")

\* impl TryFrom<String> for Env
TryFrom(s) ==
    LET other == ToLowercase(s)
    IN  IF other = S_dev THEN OkEnv("DEV")
        ELSE IF other = S_development THEN OkEnv("DEV")
        ELSE IF other = S_prod THEN OkEnv("PROD")
        ELSE IF other = S_production THEN OkEnv("PROD")
        ELSE ErrEnv

(***************************************************************************)
(* Section extraction: lines 136-147 of get_configuration.                 *)
(***************************************************************************)
Lit(t) == [kind |-> "lit", tok |-> t]
AnyChar == [kind |-> "any", tok |-> ""]

\* Regex::new(r#"(?m)^\[package.metadata.leptos\]"#): the two dots are
\* unescaped, so each matches any one character except a newline
HeaderRegex == <<Lit("["), Lit("package"), AnyChar, Lit("metadata"), AnyChar,
                 Lit("leptos"), Lit("]")>>

\* the literal "[package.metadata.leptos]" of the first replace
HeaderLiteral == <<"[", "package", ".", "metadata", ".", "leptos", "]">>

\* the literal "[leptos_options]"
OptionsHeader == <<"[", "leptos", "_", "options", "]">>

MatchTok(p, t) ==
    IF p.kind = "any" THEN t \in OneChar /\ t # NL ELSE t = p.tok

\* (?m)^ : the start of the text or the position after a newline
LineStart(s, i) == i = 1 \/ s[i - 1] = NL

MatchAt(re, s, i) ==
    /\ LineStart(s, i)
    /\ i + Len(re) - 1 <= Len(s)
    /\ \A k \in 1..Len(re) : MatchTok(re[k], s[i + k - 1])

\* re.find(&text): the offset of the leftmost match, 0 for None
Find(re, s) ==
    IF \E i \in 1..Len(s) : MatchAt(re, s, i)
    THEN CHOOSE i \in 1..Len(s) :
             MatchAt(re, s, i) /\ \A j \in 1..(i - 1) : ~MatchAt(re, s, j)
    ELSE 0

\* text[..start].matches('\n').count()
Newlines(s, st) == Count(Take(s, st - 1), NL)

\* "\n".repeat(newlines) + &text[start..]
SectionInput(s, st) == Repeat(NL, Newlines(s, st)) \o Drop(s, st - 1)

\* .replace('-', "_")
ReplaceHyphensMutant(s) == s

ReplaceHyphens(s) == Replace(s, <<"-">>, <<"_">>)

\* input.replace("[package.metadata.leptos]", "[leptos_options]").replace('-', "_")
Rewrite(s, st) ==
    ReplaceHyphens(Replace(SectionInput(s, st), HeaderLiteral, OptionsHeader))

(***************************************************************************)
(* The base layer: File::from_str(&toml, FileFormat::Toml).                *)
(* A parsed document is a set of entries [path, val]; a path is a sequence *)
(* of keys, a key a sequence of lexemes, a value a string, an integer      *)
(* (kept as its decimal digits) or a table.  The grammar covers blank and  *)
(* comment lines, table headers, and key = value lines whose value is a    *)
(* basic string or a decimal integer.                                      *)
(***************************************************************************)
StrVal(s) == [kind |-> "str", s |-> s]
IntVal(d) == [kind |-> "int", s |-> d]
TableVal == [kind |-> "table", s |-> <<>>]

\* the escape - of a TOML basic string: the hyphen, written without one
EscHyphen == "\\u002D"

RECURSIVE TrimLeft(_)
TrimLeft(s) == IF s # <<>> /\ Head(s) = " " THEN TrimLeft(Tail(s)) ELSE s

RECURSIVE TrimRight(_)
TrimRight(s) ==
    IF s # <<>> /\ s[Len(s)] = " " THEN TrimRight(Take(s, Len(s) - 1)) ELSE s

Trim(s) == TrimRight(TrimLeft(s))

\* a bare key: letters, digits, '_' and '-'
IsBareKey(k) ==
    /\ k # <<>>
    /\ \A i \in 1..Len(k) :
           \/ k[i] \in {"_", "-"}
           \/ IsDigit(k[i])
           \/ k[i] \notin OneChar \cup {EscHyphen}

\* a dotted key, as a path; <<>> when it is malformed
KeyPath(k) ==
    LET parts == SplitOn(k, ".")
        keys == [i \in 1..Len(parts) |-> Trim(parts[i])]
    IN  IF \A i \in 1..Len(keys) : IsBareKey(keys[i]) THEN keys ELSE <<>>

IsInteger(v) ==
    /\ v # <<>>
    /\ \A i \in 1..Len(v) : IsDigit(v[i])
    /\ (Len(v) = 1 \/ v[1] # "0")

IsBasicString(v) ==
    /\ Len(v) >= 2
    /\ v[1] = "\"" /\ v[Len(v)] = "\""
    /\ \A i \in 2..(Len(v) - 1) : v[i] # "\""

\* the content of a basic string, its escapes decoded
Unescape(v) ==
    [i \in 1..(Len(v) - 2) |-> IF v[i + 1] = EscHyphen THEN "-" ELSE v[i + 1]]

IsValue(v) == IsInteger(v) \/ IsBasicString(v)

ValueOf(v) == IF IsInteger(v) THEN IntVal(v) ELSE StrVal(Unescape(v))

ParseFailed == [ok |-> FALSE, table |-> <<>>, entries |-> {}]

Defined(entries, p) == \E e \in entries : e.path = p

Declare(acc, p, v, tbl) ==
    IF p = <<>> \/ Defined(acc.entries, p) THEN ParseFailed
    ELSE [ok |-> TRUE, table |-> tbl,
          entries |-> acc.entries \cup {[path |-> p, val |-> v]}]

ParseLine(acc, line) ==
    LET t == Trim(line)
    IN  IF ~acc.ok THEN acc
        ELSE IF t = <<>> \/ t[1] = "#" THEN acc
        ELSE IF t[1] = "[" THEN
            IF t[Len(t)] = "]"
            THEN LET p == KeyPath(SubSeq(t, 2, Len(t) - 1))
                 IN  Declare(acc, p, TableVal, p)
            ELSE ParseFailed
        ELSE IF \E i \in 1..Len(t) : t[i] = "=" THEN
            LET i == CHOOSE k \in 1..Len(t) :
                         t[k] = "=" /\ \A j \in 1..(k - 1) : t[j] # "="
                k == KeyPath(Trim(Take(t, i - 1)))
                v == Trim(Drop(t, i))
            IN  IF k # <<>> /\ IsValue(v)
                THEN Declare(acc, acc.table \o k, ValueOf(v), acc.table)
                ELSE ParseFailed
        ELSE ParseFailed

RECURSIVE ParseLines(_, _)
ParseLines(acc, ls) ==
    IF ls = <<>> THEN acc ELSE ParseLines(ParseLine(acc, Head(ls)), Tail(ls))

\* the TOML document as [ok, entries]
ParseToml(s) ==
    ParseLines([ok |-> TRUE, table |-> <<>>, entries |-> {}], SplitOn(s, NL))

(***************************************************************************)
(* The environment layer:                                                  *)
(* config::Environment::with_prefix("LEPTOS").separator("_").              *)
(***************************************************************************)
UpperWords == <<"LEPTOS", "RELOAD", "PORT", "ENV", "OUTPUT", "NAME", "PATH">>

LowerWords == <<"leptos", "reload", "port", "env", "output", "name", "path">>

\* to_lowercase on the lexemes of a variable name
ToLowerWord(t) ==
    IF \E i \in 1..Len(UpperWords) : UpperWords[i] = t
    THEN LowerWords[CHOOSE i \in 1..Len(UpperWords) : UpperWords[i] = t]
    ELSE t

\* format!("{}{}", prefix, prefix_separator).to_lowercase(): "leptos_"
PrefixPattern == <<"leptos", "_">>

\* the separator given to .separator("_")
Separator == <<"_">>

\* the key a variable name collects to: lower-cased, the prefix cut off, every
\* separator replaced by "."
EnvKey(name) ==
    LET key == [i \in 1..Len(name) |-> ToLowerWord(name[i])]
    IN  Replace(Drop(key, Len(PrefixPattern)), Separator, <<".">>)

\* a variable is collected iff its lower-cased name starts with the prefix
Collected(name) ==
    StartsWith([i \in 1..Len(name) |-> ToLowerWord(name[i])], PrefixPattern)

\* the path a collected key is set at: split at "."; a key that is no path
\* expression is set as one identifier
EnvPath(key) ==
    LET parts == SplitOn(key, ".")
    IN  IF \A i \in 1..Len(parts) : parts[i] # <<>> THEN parts ELSE <<key>>

\* Environment::collect(): every value a string
EnvEntries(env) ==
    {[path |-> EnvPath(EnvKey(v.name)), val |-> StrVal(v.value)] :
        v \in {w \in env : Collected(w.name)}}

IsPrefix(p, q) == Len(p) <= Len(q) /\ Take(q, Len(p)) = p

\* one entry set over another: what lies at or below its path is replaced, and
\* a scalar above its path gives way to a table
Replaces(e, x) ==
    \/ IsPrefix(e.path, x.path)
    \/ IsPrefix(x.path, e.path) /\ x.val.kind # "table"

\* the tables an entry's path runs through
Parents(e) ==
    {[path |-> Take(e.path, k), val |-> TableVal] : k \in 1..(Len(e.path) - 1)}

\* a later source set over the cache, entry by entry (the entries of one
\* source have distinct keys; the environments enumerated hold no two keys
\* of which one is a prefix of the other, so the order among them is immaterial)
Overlay(entries, over) ==
    {x \in entries : \A e \in over : ~Replaces(e, x)}
    \cup over
    \cup UNION {Parents(e) : e \in over}

\* Config::builder().add_source(file).add_source(environment).build()
Build(s, env) ==
    LET base == ParseToml(s)
    IN  IF base.ok
        THEN [ok |-> TRUE, entries |-> Overlay(base.entries, EnvEntries(env))]
        ELSE [ok |-> FALSE, entries |-> {}]

(***************************************************************************)
(* Materialization: settings.try_deserialize::<ConfFile>().                *)
(* LeptosOptions derives serde::Deserialize with no serde default on any   *)
(* field (the defaults it names belong to its TypedBuilder); Env derives   *)
(* serde::Deserialize, which knows the variant names PROD and DEV.         *)
(***************************************************************************)
K_leptos_options == <<"leptos", "_", "options">>
K_output_name == <<"output", "_", "name">>
K_site_root == <<"site", "_", "root">>
K_site_pkg_dir == <<"site", "_", "pkg", "_", "dir">>
K_env == <<"env">>
K_site_address == <<"site", "_", "address">>
K_reload_port == <<"reload", "_", "port">>

\* a field of the leptos_options table: <<>> when absent, else <<value>>
Field(entries, k) ==
    LET p == <<K_leptos_options, k>>
    IN  IF Defined(entries, p)
        THEN <<(CHOOSE e \in entries : e.path = p).val>>
        ELSE <<>>

RECURSIVE StripZeros(_)
StripZeros(d) == IF Len(d) > 1 /\ d[1] = "0" THEN StripZeros(Tail(d)) ELSE d

RECURSIVE NumValue(_)
NumValue(d) ==
    IF d = <<>> THEN 0 ELSE 10 * NumValue(Take(d, Len(d) - 1)) + DigitValue(d[Len(d)])

AllDigits(d) == d # <<>> /\ \A i \in 1..Len(d) : IsDigit(d[i])

\* u32::MAX, in digits
U32MaxDigits == <<"4", "2", "9", "4", "9", "6", "7", "2", "9", "5">>

RECURSIVE DigitsLeq(_, _)
DigitsLeq(a, b) ==
    IF a = <<>> THEN TRUE
    ELSE IF DigitValue(a[1]) # DigitValue(b[1]) THEN DigitValue(a[1]) < DigitValue(b[1])
    ELSE DigitsLeq(Tail(a), Tail(b))

FitsU32(d) ==
    \/ Len(d) < Len(U32MaxDigits)
    \/ Len(d) = Len(U32MaxDigits) /\ DigitsLeq(d, U32MaxDigits)

\* String: a string, or a number as its digits
AsStringMutant(v) ==
    IF v = <<>> THEN <<<<>>>>
    ELSE IF v[1].kind = "table" THEN <<>>
    ELSE <<v[1].s>>

AsString(v) ==
    IF v = <<>> \/ v[1].kind = "table" THEN <<>> ELSE <<v[1].s>>

\* u32: an integer, or a string that parses as one
AsU32(v) ==
    IF v = <<>> \/ v[1].kind = "table" \/ ~AllDigits(v[1].s) THEN <<>>
    ELSE IF FitsU32(StripZeros(v[1].s)) THEN <<StripZeros(v[1].s)>>
    ELSE <<>>

\* Env: the derived Deserialize accepts a string naming a variant
AsEnv(v) ==
    IF v = <<>> \/ v[1].kind # "str" THEN <<>>
    ELSE IF v[1].s = <<"PROD">> THEN <<"PROD">>
    ELSE IF v[1].s = <<"DEV">> THEN <<"DEV">>
    ELSE <<>>

PortMax == 65535

OctetMax == 255

IsOctet(d) ==
    AllDigits(d) /\ Len(d) <= 3 /\ (Len(d) = 1 \/ d[1] # "0") /\ NumValue(d) <= OctetMax

IsPort(d) == AllDigits(d) /\ Len(d) <= 5 /\ NumValue(d) <= PortMax

\* SocketAddr: a string "a.b.c.d:port"
AsSocketAddr(v) ==
    IF v = <<>> \/ v[1].kind # "str" THEN <<>>
    ELSE LET hp == SplitOn(v[1].s, ":")
             ip == SplitOn(hp[1], ".")
         IN  IF /\ Len(hp) = 2
                /\ Len(ip) = 4
                /\ \A i \in 1..4 : IsOctet(ip[i])
                /\ IsPort(hp[2])
             THEN <<[ip |-> [i \in 1..4 |-> NumValue(ip[i])], port |-> NumValue(hp[2])]>>
             ELSE <<>>

\* the outcomes of get_configuration
Ok(o) == [kind |-> "Ok", options |-> <<o>>]
Err(k) == [kind |-> k, options |-> <<>>]

\* try_deserialize().map_err(|e| LeptosConfigError::ConfigError(e.to_string()))
Deserialize(entries) ==
    LET table == Defined(entries, <<K_leptos_options>>)
        output_name == AsString(Field(entries, K_output_name))
        site_root == AsString(Field(entries, K_site_root))
        site_pkg_dir == AsString(Field(entries, K_site_pkg_dir))
        env == AsEnv(Field(entries, K_env))
        site_address == AsSocketAddr(Field(entries, K_site_address))
        reload_port == AsU32(Field(entries, K_reload_port))
    IN  IF /\ table
           /\ output_name # <<>>
           /\ site_root # <<>>
           /\ site_pkg_dir # <<>>
           /\ env # <<>>
           /\ site_address # <<>>
           /\ reload_port # <<>>
        THEN Ok([output_name |-> output_name[1],
                 site_root |-> site_root[1],
                 site_pkg_dir |-> site_pkg_dir[1],
                 env |-> env[1],
                 site_address |-> site_address[1],
                 reload_port |-> reload_port[1]])
        ELSE Err("ConfigError")

\* the conversion the ? after build() applies (crate::errors, From<config::ConfigError>)
FromConfigError == Err("MergeError")

(***************************************************************************)
(* The inputs: documents and environments.                                 *)
(***************************************************************************)
Runs == {1, 2}

Str(s) == <<"\"">> \o s \o <<"\"">>
KV(k, v) == k \o <<" ", "=", " ">> \o v

L_header == HeaderLiteral
\* matched by the regex, not by the literal
L_near_header == <<"[", "package", "-", "metadata", "-", "leptos", "]">>
\* an indented header: not at the start of its line
L_indented_header == <<" ">> \o HeaderLiteral
L_blank == <<>>
L_name == KV(<<"name">>, Str(<<"my", "-", "app">>))
L_dependencies == <<"[", "dependencies", "]">>
L_leptos == KV(<<"leptos">>, Str(<<"0", ".", "1">>))

L_output_name == KV(K_output_name, Str(<<"app">>))
L_site_root == KV(K_site_root, Str(<<"/", "pkg">>))
L_site_pkg_dir == KV(K_site_pkg_dir, Str(<<"pkg">>))
L_env(e) == KV(K_env, Str(<<e>>))
L_site_address ==
    KV(K_site_address,
       Str(<<"1", "2", "7", ".", "0", ".", "0", ".", "1", ":", "3", "0", "0", "0">>))
L_reload_port == KV(K_reload_port, <<"3", "0", "0", "1">>)

\* the lines after output_name of a section that supplies every field
Rest(e) == <<L_site_root, L_site_pkg_dir, L_env(e), L_site_address, L_reload_port>>

B_full == <<L_output_name>> \o Rest("DEV")
B_prod == <<L_output_name>> \o Rest("PROD")
B_only_output_name == <<L_output_name>>
B_no_output_name == Rest("DEV")
B_empty == <<>>
B_production == <<L_output_name>> \o Rest("production")
B_staging == <<L_output_name>> \o Rest("staging")
\* kebab-case keys and a hyphen in a value
B_kebab ==
    <<KV(<<"output", "-", "name">>, Str(<<"my", "-", "app">>)),
      KV(<<"site", "-", "root">>, Str(<<"/", "pkg">>)),
      KV(<<"site", "-", "pkg", "-", "dir">>, Str(<<"pkg">>)),
      L_env("DEV"),
      KV(<<"site", "-", "address">>,
         Str(<<"1", "2", "7", ".", "0", ".", "0", ".", "1", ":", "3", "0", "0", "0">>)),
      KV(<<"reload", "-", "port">>, <<"3", "0", "0", "1">>)>>
\* a hyphen written as an escape
B_escaped == <<KV(K_output_name, Str(<<"my", EscHyphen, "app">>))>> \o Rest("DEV")
B_bad_address ==
    <<L_output_name, L_site_root, L_site_pkg_dir, L_env("DEV"),
      KV(K_site_address, Str(<<"localhost">>)), L_reload_port>>
\* the header a second time, further down
B_repeated == B_full \o <<L_indented_header>>
\* another table after the section, holding the only output_name
B_trailing == Rest("DEV") \o <<L_dependencies, L_leptos, L_output_name>>

Bodies == {B_full, B_prod, B_only_output_name, B_no_output_name, B_empty,
           B_production, B_staging, B_kebab, B_escaped, B_bad_address,
           B_repeated, B_trailing}

PreLines == {L_blank, L_name, L_near_header}

RECURSIVE SeqsUpTo(_, _)
SeqsUpTo(S, n) ==
    IF n = 0 THEN {<<>>}
    ELSE LET shorter == SeqsUpTo(S, n - 1)
         IN  shorter \cup {Append(p, x) : p \in shorter, x \in S}

Readable(s) == [readable |-> TRUE, content |-> s]
Unreadable == [readable |-> FALSE, content |-> <<>>]

Documents ==
    {Unreadable}
    \cup {Readable(JoinLines(pre \o hdr \o body)) :
            pre \in SeqsUpTo(PreLines, MaxPre),
            hdr \in {<<>>, <<L_header>>},
            body \in Bodies}

Var(n, v) == [name |-> n, value |-> v]

E_reload_port == Var(<<"LEPTOS", "_", "RELOAD", "_", "PORT">>, <<"9", "9", "9", "9">>)
E_env == Var(<<"LEPTOS", "_", "ENV">>, <<"bogus">>)
E_output_name == Var(<<"LEPTOS", "_", "OUTPUT", "_", "NAME">>, <<"envapp">>)
E_path == Var(<<"PATH">>, <<"/", "bin">>)

EnvPool == {E_reload_port, E_env, E_output_name, E_path}

Environments == {e \in SUBSET EnvPool : Cardinality(e) <= MaxEnvVars}

(***************************************************************************)
(* get_configuration, one action per stage; each run r has its own locals. *)
(***************************************************************************)
Locals(stage) == [r \in Runs |-> stage]

Init ==
    /\ file \in Documents
    /\ environ \in Environments
    /\ pc = Locals("read")
    /\ text = Locals(<<>>)
    /\ start = Locals(0)
    /\ toml = Locals(<<>>)
    /\ settings = Locals({})
    /\ result = Locals(<<>>)
    /\ input = <<>>
    /\ lenient = <<>>
    /\ strict = <<>>

Return(r, outcome) ==
    /\ result' = [result EXCEPT ![r] = <<outcome>>]
    /\ pc' = [pc EXCEPT ![r] = "done"]

\* lines 132-135: fs::read_to_string(..).map_err(|_| ConfigNotFound)?
Read(r) ==
    /\ pc[r] = "read"
    /\ IF file.readable
       THEN /\ text' = [text EXCEPT ![r] = file.content]
            /\ pc' = [pc EXCEPT ![r] = "extract"]
            /\ UNCHANGED result
       ELSE /\ Return(r, Err("ConfigNotFound"))
            /\ UNCHANGED text
    /\ UNCHANGED <<file, environ, start, toml, settings, input, lenient, strict>>

\* lines 136-147: the regex search and the rewrite
ExtractMutant(r) ==
    /\ pc[r] = "extract"
    /\ LET shared == text[1]
           found == Find(HeaderRegex, shared)
       IN  IF found # 0
           THEN /\ start' = [start EXCEPT ![r] = found]
                /\ toml' = [toml EXCEPT ![r] = Rewrite(shared, found)]
                /\ pc' = [pc EXCEPT ![r] = "merge"]
                /\ UNCHANGED result
           ELSE /\ Return(r, Err("ConfigSectionNotFound"))
                /\ UNCHANGED <<start, toml>>
    /\ UNCHANGED <<file, environ, text, settings, input, lenient, strict>>

Extract(r) ==
    /\ pc[r] = "extract"
    /\ LET found == Find(HeaderRegex, text[r])
       IN  IF found # 0
           THEN /\ start' = [start EXCEPT ![r] = found]
                /\ toml' = [toml EXCEPT ![r] = Rewrite(text[r], found)]
                /\ pc' = [pc EXCEPT ![r] = "merge"]
                /\ UNCHANGED result
           ELSE /\ Return(r, Err("ConfigSectionNotFound"))
                /\ UNCHANGED <<start, toml>>
    /\ UNCHANGED <<file, environ, text, settings, input, lenient, strict>>

\* lines 148-155: Config::builder()...build()?
Merge(r) ==
    /\ pc[r] = "merge"
    /\ LET built == Build(toml[r], environ)
       IN  IF built.ok
           THEN /\ settings' = [settings EXCEPT ![r] = built.entries]
                /\ pc' = [pc EXCEPT ![r] = "materialize"]
                /\ UNCHANGED result
           ELSE /\ Return(r, FromConfigError)
                /\ UNCHANGED settings
    /\ UNCHANGED <<file, environ, text, start, toml, input, lenient, strict>>

\* lines 157-159: settings.try_deserialize().map_err(..)
Materialize(r) ==
    /\ pc[r] = "materialize"
    /\ Return(r, Deserialize(settings[r]))
    /\ UNCHANGED <<file, environ, text, start, toml, settings, input, lenient, strict>>

Next == \E r \in Runs : Read(r) \/ Extract(r) \/ Merge(r) \/ Materialize(r)

Spec == Init /\ [][Next]_vars

(***************************************************************************)
(* The classifiers on their own: a string is drawn and each is applied.    *)
(***************************************************************************)
ToUpperChar(c) ==
    IF \E i \in 1..26 : LowerChars[i] = c
    THEN UpperChars[CHOOSE i \in 1..26 : LowerChars[i] = c]
    ELSE c

Words == {S_dev, S_development, S_prod, S_production,
          <<"d", "e", "v", "e", "l">>, <<"p", "r", "o">>,
          <<"p", "r", "o", "d", "u", "c", "t">>,
          <<"s", "t", "a", "g", "i", "n", "g">>, <<"t", "e", "s", "t">>}

\* a word in lower case, in upper case, capitalised, and in alternating case
Cased(w) ==
    {w,
     [i \in 1..Len(w) |-> ToUpperChar(w[i])],
     [i \in 1..Len(w) |-> IF i = 1 THEN ToUpperChar(w[i]) ELSE w[i]],
     [i \in 1..Len(w) |-> IF i % 2 = 0 THEN ToUpperChar(w[i]) ELSE w[i]]}

ClassifierInputs ==
    UNION {Cased(w) : w \in Words}
    \cup SeqsUpTo({"d", "e", "v", "D", "E", "V"}, MaxLen)

InitEnv ==
    /\ input \in ClassifierInputs
    /\ lenient = <<>>
    /\ strict = <<>>
    /\ file = Unreadable
    /\ environ = {}
    /\ pc = Locals("idle")
    /\ text = Locals(<<>>)
    /\ start = Locals(0)
    /\ toml = Locals(<<>>)
    /\ settings = Locals({})
    /\ result = Locals(<<>>)

CallFromStr ==
    /\ lenient = <<>>
    /\ lenient' = <<FromStr(input)>>
    /\ UNCHANGED <<file, environ, pc, text, start, toml, settings, result, input, strict>>

CallTryFrom ==
    /\ strict = <<>>
    /\ strict' = <<TryFrom(input)>>
    /\ UNCHANGED <<file, environ, pc, text, start, toml, settings, result, input, lenient>>

NextEnv == CallFromStr \/ CallTryFrom

SpecEnv == InitEnv /\ [][NextEnv]_vars

(***************************************************************************)
(* Properties.                                                             *)
(***************************************************************************)
Done(r) == pc[r] = "done"
Outcome(r) == result[r][1]
Resolved(r) == Done(r) /\ Outcome(r).kind = "Ok"
Options(r) == Outcome(r).options[1]

\* some line of the text begins with the literal header
HasHeaderLine(s) ==
    \E i \in 1..Len(s) : LineStart(s, i) /\ OccursAt(s, HeaderLiteral, i)

\* the line the first such header is on
HeaderLineNo(s) ==
    LET i == CHOOSE k \in 1..Len(s) :
                 /\ LineStart(s, k) /\ OccursAt(s, HeaderLiteral, k)
                 /\ \A j \in 1..(k - 1) : ~(LineStart(s, j) /\ OccursAt(s, HeaderLiteral, j))
    IN  Count(Take(s, i - 1), NL) + 1

\* the documents that hold the header line followed by the given lines, after
\* any lines the regex does not match
PlainPre == SeqsUpTo({L_blank, L_name}, MaxPre)
Section(body) == {Readable(JoinLines(pre \o <<L_header>> \o body)) : pre \in PlainPre}

\* no variable with the LEPTOS_ prefix is set
NoLeptosVars == \A v \in environ : ~Collected(v.name)

NoHyphen(s) == \A i \in 1..Len(s) : s[i] # "-"

\* C1: a resolved record's reload_port is the value of LEPTOS_RELOAD_PORT
\* whenever that variable is set, whatever the document wrote for it
C1_EnvironmentWins ==
    \A r \in Runs :
        Resolved(r) /\ E_reload_port \in environ
            => Options(r).reload_port = E_reload_port.value

\* C2: a section that supplies only output_name, with no LEPTOS_ variable
\* set, resolves to a record holding the stated defaults
C2_DefaultsApplied ==
    \A r \in Runs :
        Done(r) /\ file \in Section(B_only_output_name) /\ NoLeptosVars
            => /\ Outcome(r).kind = "Ok"
               /\ Options(r) = [output_name |-> <<"app">>,
                                site_root |-> <<"/", "pkg">>,
                                site_pkg_dir |-> <<"pkg">>,
                                env |-> "DEV",
                                site_address |-> [ip |-> <<127, 0, 0, 1>>, port |-> 3000],
                                reload_port |-> <<"3", "0", "0", "1">>]

\* C3: ConfigNotFound is returned exactly when the document cannot be read,
\* ConfigSectionNotFound exactly when it was read and no line begins with
\* [package.metadata.leptos]; the second carries no options record
C3_NotFoundExactly ==
    \A r \in Runs :
        Done(r) =>
            /\ Outcome(r).kind = "ConfigNotFound" <=> ~file.readable
            /\ Outcome(r).kind = "ConfigSectionNotFound"
                   <=> file.readable /\ ~HasHeaderLine(file.content)
            /\ Outcome(r).kind = "ConfigSectionNotFound" => Outcome(r).options = <<>>

\* the documents whose section holds no output_name
LacksOutputName ==
    Section(B_no_output_name) \cup Section(B_empty) \cup Section(B_trailing)

EqIgnoreCase(s, w) ==
    /\ Len(s) = Len(w)
    /\ \A i \in 1..Len(s) : s[i] = w[i] \/ s[i] = ToUpperChar(w[i])

IsDev(s) == EqIgnoreCase(s, S_dev) \/ EqIgnoreCase(s, S_development)
IsProd(s) == EqIgnoreCase(s, S_prod) \/ EqIgnoreCase(s, S_production)

\* C5: both classifiers map dev and development to DEV and prod and
\* production to PROD in any letter case; for every other string from_str
\* returns DEV and never an error, try_from an error and never a variant
C5_Classifier ==
    /\ lenient # <<>> =>
           lenient[1] = IF IsProd(input) THEN OkEnv("PROD") ELSE OkEnv("DEV")
    /\ strict # <<>> =>
           strict[1] = IF IsDev(input) THEN OkEnv("DEV")
                       ELSE IF IsProd(input) THEN OkEnv("PROD")
                       ELSE ErrEnv

C5_Witness ==
    /\ IsProd(input) /\ input \notin {S_prod, S_production}
    /\ lenient = <<OkEnv("PROD")>> /\ strict = <<OkEnv("PROD")>>

\* C6: when the first line that begins with [package.metadata.leptos] is line
\* n, the rewritten text begins with n-1 newlines followed by [leptos_options]
C6_LineNumbersKept ==
    \A r \in Runs :
        start[r] # 0 /\ HasHeaderLine(text[r])
            => LET n == HeaderLineNo(text[r])
               IN  /\ Len(toml[r]) >= n - 1 + Len(OptionsHeader)
                   /\ Take(toml[r], n - 1 + Len(OptionsHeader))
                          = Repeat(NL, n - 1) \o OptionsHeader

\* the characters of a value written for env
Spell(e) ==
    CASE e = "DEV" -> <<"D", "E", "V">>
      [] e = "PROD" -> <<"P", "R", "O", "D">>
      [] e = "production" -> S_production
      [] e = "staging" -> <<"s", "t", "a", "g", "i", "n", "g">>

\* C7: the env field accepts DEV and PROD and the lenient forms of the
\* classifier, and any other string for it yields ConfigError
C7_EnvFieldForms ==
    \A r \in Runs : \A e \in {"DEV", "PROD", "production", "staging"} :
        Done(r) /\ file \in Section(<<L_output_name>> \o Rest(e))
            => IF TryFrom(Spell(e)).ok
               THEN Outcome(r).kind = "Ok" /\ Options(r).env = TryFrom(Spell(e)).env
               ELSE Outcome(r) = Err("ConfigError")

C9_EarliestStageFails ==
    \A r \in Runs :
        Done(r) =>
            /\ Outcome(r).kind \in {"Ok", "ConfigNotFound", "ConfigSectionNotFound",
                                    "MergeError", "ConfigError"}
            /\ Outcome(r).kind = "Ok" <=> Outcome(r).options # <<>>
            /\ ~file.readable =>
                   /\ Outcome(r).kind = "ConfigNotFound"
                   /\ text[r] = <<>> /\ start[r] = 0 /\ toml[r] = <<>> /\ settings[r] = {}
            /\ file.readable /\ ~HasHeaderLine(file.content) =>
                   /\ Outcome(r).kind = "ConfigSectionNotFound"
                   /\ toml[r] = <<>> /\ settings[r] = {}
            /\ Outcome(r).kind = "MergeError" => settings[r] = {}

\* C10 as stated: the rewritten text holds no hyphen, and no string field
\* resolved from the document holds one
C10_NoHyphenResolved ==
    \A r \in Runs :
        /\ NoHyphen(toml[r])
        /\ Resolved(r) =>
               /\ NoHyphen(Options(r).output_name)
               /\ NoHyphen(Options(r).site_root)
               /\ NoHyphen(Options(r).site_pkg_dir)

\* the text holds a hyphen written as an escape
HasEscape(s) == \E i \in 1..Len(s) : s[i] = EscHyphen

\* C10 as amended: the rewritten text holds no hyphen, every hyphen written
\* literally in a key or a value is resolved as an underscore, and a string
\* field holds a hyphen only where the document wrote it as an escape
C10_HyphensRewritten ==
    \A r \in Runs :
        /\ NoHyphen(toml[r])
        /\ Resolved(r) /\ ~HasEscape(toml[r]) =>
               /\ NoHyphen(Options(r).output_name)
               /\ NoHyphen(Options(r).site_root)
               /\ NoHyphen(Options(r).site_pkg_dir)
        /\ Resolved(r) /\ file \in Section(B_kebab) =>
               Options(r).output_name = <<"my", "_", "app">>

C10_Witness ==
    \E r \in Runs :
        /\ Resolved(r) /\ file \in Section(B_kebab)
        /\ ~NoHyphen(file.content)
        /\ Options(r).output_name = <<"my", "_", "app">>

====
